---- MODULE Spec2Model ----
(***************************************************************************)
(* Model of raviqqe/fixed-size-vector: ArrayQueue, a fixed-capacity        *)
(* double-ended queue over an uninitialized backing array                  *)
(* (src/src/array_queue.rs), its read-only double-ended iterator, Clone    *)
(* and Drop.                                                               *)
(*                                                                         *)
(* A slot of the backing array is either Uninit (never written, or moved   *)
(* out by replace(.., uninitialized())) or holds a value.  Reading an      *)
(* Uninit slot is undefined behaviour: the value obtained is chosen        *)
(* nondeterministically among GarbageValues.  usize arithmetic is modelled *)
(* modulo UsizeMod; an overflowing + or - panics when the build has        *)
(* overflow checks (debug profile) and wraps otherwise (release profile).  *)
(***************************************************************************)
EXTENDS Integers, Sequences, FiniteSets, TLC

\* ------------------------------------------------------------------ bounds
N == 2
MaxVal == 2
UsizeBits == 2
MaxYield == 4

\* --------------------------------------------------------------- constants
Uninit == 0
Junk == -1
DefaultValue == 0

UsizeMod == 2 ^ UsizeBits
UsizeMax == UsizeMod - 1

Values == 1 .. MaxVal
GarbageValues == Values \cup {Junk}
Slots == 0 .. (N - 1)
NoSlot == N

VARIABLES
  queue,            \* the ArrayQueue: [array, start, length]
  alive,            \* FALSE once the queue has been dropped
  overflow_checks,  \* build profile: TRUE = arithmetic overflow panics
  panicked,         \* a panic has unwound the caller
  iter,             \* the ArrayQueueIterator borrowed from the queue
  iter_mut,         \* the ArrayQueueMutIterator borrowed from the queue
  yielded,          \* what the iterator has returned so far
  cloned,           \* result of the last clone()
  call,             \* the last call: operation, argument, result, effect
  pre,              \* the queue before the last call
  prevCall,         \* the call before the last one: operation, argument, result
  abs,              \* values pushed and not yet popped, front to back
  net,              \* pushes that returned Ok minus pops that returned Some
  vec,              \* the ArrayVec: [array, start, length]
  vcall             \* the last call on the ArrayVec: operation, result

vars == <<queue, alive, overflow_checks, panicked, iter, iter_mut, yielded, cloned,
          call, pre, prevCall, abs, net, vec, vcall>>

vvars == <<vec, vcall>>

\* ----------------------------------------------------------- result values
Ok == [tag |-> "Ok", val |-> 0]
Err == [tag |-> "Err", val |-> 0]
None == [tag |-> "None", val |-> 0]
Some(v) == [tag |-> "Some", val |-> v]
Panic == [tag |-> "Panic", val |-> 0]

\* usize arithmetic: the wrapped result, and whether it overflowed
usize_add(a, b) == (a + b) % UsizeMod

usize_sub(a, b) == (a - b + UsizeMod) % UsizeMod

add_overflows(a, b) == a + b > UsizeMax

sub_overflows(a, b) == a < b

\* ------------------------------------------------------------- ArrayQueue
new == [array |-> [i \in Slots |-> Uninit], start |-> 0, length |-> 0]

capacity == N

len(q) == q.length

is_empty(q) == len(q) = 0

\* mutation of is_full: an off-by-one comparison
is_full_off_by_one(q) == len(q) > capacity

is_full(q) == len(q) = capacity

index(q, i) == ((q.start + i) % UsizeMod) % capacity

\* index(i) panics: start + i overflows usize (with overflow checks) or the
\* remainder is taken by a capacity of 0
index_panics(q, i) == add_overflows(q.start, i) \/ capacity = 0

\* the value a read of slot i produces; g is what an uninitialized read gives
Read(q, i, g) == IF q.array[i] = Uninit THEN g ELSE q.array[i]

\* what a read of slot i can produce beyond the slot's own content
Garbage(q, i) == IF i \in Slots /\ q.array[i] = Uninit THEN GarbageValues ELSE {Junk}

Effect(q, ret, slot, uninit, overwrote) ==
  [q |-> q, ret |-> ret, slot |-> slot, uninit |-> uninit, overwrote |-> overwrote]

push_back(q, x) ==
  IF is_full(q)
    THEN Effect(q, Err, NoSlot, FALSE, FALSE)
    ELSE LET i == index(q, q.length)
         IN Effect([q EXCEPT !.array[i] = x, !.length = q.length + 1],
                   Ok, i, FALSE, q.array[i] # Uninit)

\* mutation of push_front: the slot is written but start is not moved
push_front_keeps_start(q, x) ==
  IF is_full(q)
    THEN Effect(q, Err, NoSlot, FALSE, FALSE)
    ELSE LET s == index(q, capacity - 1)
         IN Effect([q EXCEPT !.array[s] = x, !.length = q.length + 1],
                   Ok, s, FALSE, q.array[s] # Uninit)

\* mutation of push_front: the value is stored at the old start
push_front_in_place(q, x) ==
  IF is_full(q)
    THEN Effect(q, Err, NoSlot, FALSE, FALSE)
    ELSE LET s == q.start
         IN Effect([q EXCEPT !.start = s, !.array[s] = x, !.length = q.length + 1],
                   Ok, s, FALSE, q.array[s] # Uninit)

\* mutation of push_front: a full queue drops the value and reports success
push_front_silent(q, x) ==
  IF is_full(q)
    THEN Effect(q, Ok, NoSlot, FALSE, FALSE)
    ELSE LET s == index(q, capacity - 1)
         IN Effect([q EXCEPT !.start = s, !.array[s] = x, !.length = q.length + 1],
                   Ok, s, FALSE, q.array[s] # Uninit)

push_front(q, x) ==
  IF is_full(q)
    THEN Effect(q, Err, NoSlot, FALSE, FALSE)
    ELSE LET s == index(q, capacity - 1)
         IN Effect([q EXCEPT !.start = s, !.array[s] = x, !.length = q.length + 1],
                   Ok, s, FALSE, q.array[s] # Uninit)

\* mutation of pop_back: length is not decremented
pop_back_keeps_length(q, g) ==
  IF is_empty(q)
    THEN Effect(q, None, NoSlot, FALSE, FALSE)
    ELSE LET i == q.length - 1
         IN Effect([q EXCEPT !.array[i] = Uninit],
                   Some(Read(q, i, g)), i, q.array[i] = Uninit, FALSE)

pop_back(q, g) ==
  IF is_empty(q)
    THEN Effect(q, None, NoSlot, FALSE, FALSE)
    ELSE LET i == q.length - 1
         IN Effect([q EXCEPT !.array[i] = Uninit, !.length = q.length - 1],
                   Some(Read(q, i, g)), i, q.array[i] = Uninit, FALSE)

\* mutation of pop_front: start is advanced without the remainder
pop_front_no_wrap(q, g) ==
  IF is_empty(q)
    THEN Effect(q, None, NoSlot, FALSE, FALSE)
    ELSE LET i == q.start
         IN Effect([q EXCEPT !.array[i] = Uninit, !.start = q.start + 1,
                             !.length = q.length - 1],
                   Some(Read(q, i, g)), i, q.array[i] = Uninit, FALSE)

\* mutation of pop_front: start is not advanced
pop_front_no_advance(q, g) ==
  IF is_empty(q)
    THEN Effect(q, None, NoSlot, FALSE, FALSE)
    ELSE LET i == q.start
         IN Effect([q EXCEPT !.array[i] = Uninit, !.length = q.length - 1],
                   Some(Read(q, i, g)), i, q.array[i] = Uninit, FALSE)

pop_front(q, g) ==
  IF is_empty(q)
    THEN Effect(q, None, NoSlot, FALSE, FALSE)
    ELSE LET i == q.start
         IN Effect([q EXCEPT !.array[i] = Uninit, !.start = index(q, 1),
                             !.length = q.length - 1],
                   Some(Read(q, i, g)), i, q.array[i] = Uninit, FALSE)

\* ----------------------------------------------------------- accessors
\* a reference is modelled by the physical slot it points to
\* mutation of element: the emptiness test is missing
element_unchecked(q, i) == Some(index(q, i))

element(q, i) == IF is_empty(q) THEN None ELSE Some(index(q, i))

element_mut(q, i) == IF is_empty(q) THEN None ELSE Some(index(q, i))

first(q) == element(q, 0)

first_mut(q) == element_mut(q, 0)

\* mutation of last: the physical index is taken without the start offset
last_without_start(q) == IF is_empty(q) THEN None ELSE Some(q.length - 1)

last(q) == IF is_empty(q) THEN None ELSE element(q, q.length - 1)

last_mut(q) == IF is_empty(q) THEN None ELSE element_mut(q, q.length - 1)

\* the content of the slot a returned reference points to
Deref(q, r) == q.array[r.val]

\* --------------------------------------------------- ArrayQueueIterator
\* IntoIterator for &ArrayQueue: first = 0, last = len() - 1
into_iter(q) == [active |-> TRUE, first |-> 0, last |-> usize_sub(len(q), 1)]

exhausted(it) == it.first > it.last

\* ------------------------------------------------ ArrayQueueMutIterator
\* IntoIterator for &mut ArrayQueue: first = 0
into_iter_mut(q) == [active |-> TRUE, first |-> 0]

\* mutation of mut_next: the slot is taken without the start offset
mut_next_without_start(q, it) ==
  IF it.first = q.length
    THEN [it |-> it, ret |-> None]
    ELSE [it |-> [it EXCEPT !.first = it.first + 1], ret |-> Some(it.first)]

\* ArrayQueueMutIterator::next: the iterator afterwards and the reference
mut_next(q, it) ==
  IF it.first = q.length
    THEN [it |-> it, ret |-> None]
    ELSE [it |-> [it EXCEPT !.first = it.first + 1],
          ret |-> Some(index(q, it.first))]

\* ------------------------------------------------------------------ Clone
\* for x in self { a.push_back(x).unwrap() }: the loop from iterator state
\* it and partial clone a; g[i] is what reading uninitialized slot i gives
RECURSIVE clone_loop(_, _, _, _, _)
clone_loop(q, it, a, g, u) ==
  IF exhausted(it)
    THEN [panic |-> FALSE, q |-> a, uninit |-> u]
    ELSE LET i == index(q, it.first)
             e == push_back(a, Read(q, i, g[i]))
             un == u \/ q.array[i] = Uninit
         IN IF e.ret = Err
              THEN [panic |-> TRUE, q |-> e.q, uninit |-> un]
              ELSE clone_loop(q, [it EXCEPT !.first = usize_add(it.first, 1)],
                              e.q, g, un)

clone(q, g, checks) ==
  IF sub_overflows(len(q), 1) /\ checks
    THEN [panic |-> TRUE, q |-> new, uninit |-> FALSE]
    ELSE clone_loop(q, into_iter(q), new, g, FALSE)

\* ------------------------------------------------------------------- Drop
\* for x in &mut self { drop(replace(x, uninitialized())) }: the mutable
\* iterator's cursor first runs pos = 0 .. length - 1 over the slots index(pos)
RECURSIVE drop_loop(_, _, _)
drop_loop(q, pos, u) ==
  IF pos = q.length
    THEN [q |-> q, uninit |-> u]
    ELSE LET i == index(q, pos)
         IN drop_loop([q EXCEPT !.array[i] = Uninit], pos + 1,
                      u \/ q.array[i] = Uninit)

drop(q) == drop_loop(q, 0, FALSE)

\* --------------------------------------------------------------- ArrayVec
vec_new == [array |-> [i \in Slots |-> DefaultValue], start |-> 0, length |-> 0]

vec_capacity(v) == Cardinality(DOMAIN v.array)

vec_len(v) == v.length

vec_is_empty(v) == vec_len(v) = 0

vec_is_full(v) == vec_len(v) = vec_capacity(v)

vec_index(v, i) == ((v.start + i) % UsizeMod) % vec_capacity(v)

vec_push(v, x) ==
  IF v.length = vec_capacity(v)
    THEN [v |-> v, ret |-> Err]
    ELSE LET i == vec_index(v, v.length)
         IN [v |-> [v EXCEPT !.array[i] = x, !.length = v.length + 1],
             ret |-> Ok]

\* mutation of ArrayVec::pop_front: the default value is not swapped in
vec_pop_front_keeps_value(v) ==
  IF v.length = 0
    THEN [v |-> v, ret |-> None]
    ELSE [v |-> [v EXCEPT !.start = vec_index(v, 1),
                          !.length = v.length - 1],
          ret |-> Some(v.array[v.start])]

vec_pop_front(v) ==
  IF v.length = 0
    THEN [v |-> v, ret |-> None]
    ELSE [v |-> [v EXCEPT !.array[v.start] = DefaultValue,
                          !.start = vec_index(v, 1),
                          !.length = v.length - 1],
          ret |-> Some(v.array[v.start])]

\* the result of a whole forward iteration: how it ended and what it yielded
Iterated(tag, items) == [tag |-> tag, val |-> items]

\* ArrayVecIterator: current runs from 0 until current == length
RECURSIVE vec_iterate_loop(_, _, _)
vec_iterate_loop(v, current, out) ==
  IF current = v.length
    THEN Iterated("Done", out)
    ELSE vec_iterate_loop(v, current + 1,
                          Append(out, v.array[vec_index(v, current)]))

vec_iterate(v) == vec_iterate_loop(v, 0, << >>)

\* for x in &queue: next() until it returns None; the loop is cut off after
\* MaxYield elements ("Runaway")
RECURSIVE iterate_loop(_, _, _, _)
iterate_loop(q, it, out, checks) ==
  IF exhausted(it)
    THEN Iterated("Done", out)
    ELSE IF Len(out) = MaxYield
      THEN Iterated("Runaway", out)
      ELSE IF add_overflows(it.first, 1) /\ checks
        THEN Iterated("Panic", out)
        ELSE iterate_loop(q, [it EXCEPT !.first = usize_add(it.first, 1)],
                          Append(out, q.array[index(q, it.first)]), checks)

iterate(q, checks) ==
  IF sub_overflows(len(q), 1) /\ checks
    THEN Iterated("Panic", << >>)
    ELSE iterate_loop(q, into_iter(q), << >>, checks)

\* the physical slots of the ArrayVec's live elements
VecWindow(v) == { vec_index(v, i) : i \in 0 .. (v.length - 1) }

NoVecCall == [op |-> "none", ret |-> None]

\* ------------------------------------------------------------ observations
\* physical slots of the live window
Window(q) == { (q.start + i) % N : i \in 0 .. (q.length - 1) }

\* physical slots that hold a constructed, not yet moved-out value
LiveSlots(q) == { i \in Slots : q.array[i] # Uninit }

\* content of the window, logical front to back
Logical(q) == [i \in 1 .. q.length |-> q.array[(q.start + i - 1) % N]]

NoCall == [op |-> "none", arg |-> 0, ret |-> None, slot |-> NoSlot,
           uninit |-> FALSE, overwrote |-> FALSE]

Call(op, arg, e) == [op |-> op, arg |-> arg, ret |-> e.ret, slot |-> e.slot,
                     uninit |-> e.uninit, overwrote |-> e.overwrote]

Brief(c) == [op |-> c.op, arg |-> c.arg, tag |-> c.ret.tag]

NoIter == [active |-> FALSE, first |-> 0, last |-> 0]

NoIterMut == [active |-> FALSE, first |-> 0]

NoClone == [made |-> FALSE, q |-> new]

Front(s) == SubSeq(s, 1, Len(s) - 1)

Mutators == {"push_back", "push_front", "pop_back", "pop_front"}

\* --------------------------------------------------------------------- Init
Init ==
  /\ queue = new
  /\ alive = TRUE
  /\ overflow_checks \in BOOLEAN
  /\ panicked = FALSE
  /\ iter = NoIter
  /\ iter_mut = NoIterMut
  /\ yielded = << >>
  /\ cloned = NoClone
  /\ call = NoCall
  /\ pre = new
  /\ prevCall = Brief(NoCall)
  /\ abs = << >>
  /\ net = 0
  /\ vec = vec_new
  /\ vcall = NoVecCall

\* a mutating call needs the queue alive, no panic, no outstanding borrow
CanMutate == alive /\ ~panicked /\ ~iter.active /\ ~iter_mut.active

\* what a mutator's result adds to the count of held values
Counted(ret) == IF ret = Ok THEN 1 ELSE IF ret.tag = "Some" THEN -1 ELSE 0

\* bookkeeping common to the four mutators
Record(op, arg, e) ==
  /\ queue' = e.q
  /\ call' = Call(op, arg, e)
  /\ pre' = queue
  /\ prevCall' = IF call.op \in Mutators THEN Brief(call) ELSE Brief(NoCall)
  /\ cloned' = NoClone
  /\ net' = net + Counted(e.ret)
  /\ UNCHANGED <<alive, overflow_checks, panicked, iter, iter_mut, yielded>>

PushBackOf(x) ==
  LET e == push_back(queue, x)
  IN /\ Record("push_back", x, e)
     /\ abs' = IF e.ret = Ok THEN Append(abs, x) ELSE abs

PushBack ==
  /\ CanMutate
  /\ \E x \in Values : PushBackOf(x)
  /\ UNCHANGED vvars

PushFront ==
  /\ CanMutate
  /\ \E x \in Values :
       LET e == push_front(queue, x)
       IN /\ Record("push_front", x, e)
          /\ abs' = IF e.ret = Ok THEN <<x>> \o abs ELSE abs
  /\ UNCHANGED vvars

PopBack ==
  /\ CanMutate
  /\ \E g \in Garbage(queue, queue.length - 1) :
       LET e == pop_back(queue, g)
       IN /\ Record("pop_back", 0, e)
          /\ abs' = IF e.ret = None THEN abs ELSE Front(abs)
  /\ UNCHANGED vvars

PopFrontOf(g) ==
  LET e == pop_front(queue, g)
  IN /\ Record("pop_front", 0, e)
     /\ abs' = IF e.ret = None THEN abs ELSE Tail(abs)

PopFront ==
  /\ CanMutate
  /\ \E g \in Garbage(queue, queue.start) : PopFrontOf(g)
  /\ UNCHANGED vvars

\* calls that do not change the queue: the history starts afresh
Observe(op, ret, uninit) ==
  /\ call' = [NoCall EXCEPT !.op = op, !.ret = ret, !.uninit = uninit]
  /\ pre' = queue
  /\ prevCall' = Brief(NoCall)
  /\ UNCHANGED <<queue, alive, overflow_checks, abs, net, iter_mut, vec, vcall>>

\* first / first_mut / last / last_mut: the reference returned, nothing changed
Peek(op, ret) ==
  /\ CanMutate
  /\ Observe(op, ret, ret # None /\ Deref(queue, ret) = Uninit)
  /\ cloned' = NoClone
  /\ UNCHANGED <<panicked, iter, yielded>>

First == Peek("first", first(queue))

FirstMut == Peek("first_mut", first_mut(queue))

Last == Peek("last", last(queue))

LastMut == Peek("last_mut", last_mut(queue))

\* slots of the live window that are uninitialized
UninitWindow(q) == { i \in Window(q) : q.array[i] = Uninit }

Clone ==
  /\ CanMutate
  /\ \E h \in [UninitWindow(queue) -> GarbageValues] :
       LET g == [i \in Slots |-> IF i \in DOMAIN h THEN h[i] ELSE Junk]
           r == clone(queue, g, overflow_checks)
       IN /\ panicked' = r.panic
          /\ cloned' = IF r.panic THEN NoClone ELSE [made |-> TRUE, q |-> r.q]
          /\ Observe("clone", IF r.panic THEN Panic ELSE Ok, r.uninit)
  /\ UNCHANGED <<iter, yielded>>

Drop ==
  /\ CanMutate
  /\ LET r == drop(queue)
     IN /\ queue' = r.q
        /\ call' = [NoCall EXCEPT !.op = "drop", !.ret = Ok, !.uninit = r.uninit]
  /\ alive' = FALSE
  /\ pre' = queue
  /\ prevCall' = Brief(call)
  /\ cloned' = NoClone
  /\ UNCHANGED <<overflow_checks, panicked, iter, iter_mut, yielded, abs, net, vec, vcall>>

IntoIter ==
  /\ CanMutate
  /\ IF sub_overflows(len(queue), 1) /\ overflow_checks
       THEN /\ panicked' = TRUE
            /\ iter' = iter
            /\ Observe("into_iter", Panic, FALSE)
       ELSE /\ panicked' = FALSE
            /\ iter' = into_iter(queue)
            /\ Observe("into_iter", Ok, FALSE)
  /\ yielded' = << >>
  /\ cloned' = NoClone

Yield(dir, pos) == [dir |-> dir, pos |-> pos, slot |-> index(queue, pos)]

IterNext ==
  /\ iter.active /\ ~panicked
  /\ IF exhausted(iter)
       THEN /\ Observe("next", None, FALSE)
            /\ UNCHANGED <<iter, yielded, panicked>>
       ELSE /\ Len(yielded) < MaxYield
            /\ IF add_overflows(iter.first, 1) /\ overflow_checks
                 THEN /\ panicked' = TRUE
                      /\ Observe("next", Panic, FALSE)
                      /\ UNCHANGED <<iter, yielded>>
                 ELSE /\ iter' = [iter EXCEPT !.first = usize_add(iter.first, 1)]
                      /\ yielded' = Append(yielded, Yield("next", iter.first))
                      /\ Observe("next", Some(index(queue, iter.first)),
                                 queue.array[index(queue, iter.first)] = Uninit)
                      /\ UNCHANGED panicked
  /\ UNCHANGED cloned

IterNextBack ==
  /\ iter.active /\ ~panicked
  /\ IF exhausted(iter)
       THEN /\ Observe("next_back", None, FALSE)
            /\ UNCHANGED <<iter, yielded, panicked>>
       ELSE /\ Len(yielded) < MaxYield
            /\ IF sub_overflows(iter.last, 1) /\ overflow_checks
                 THEN /\ panicked' = TRUE
                      /\ Observe("next_back", Panic, FALSE)
                      /\ UNCHANGED <<iter, yielded>>
                 ELSE /\ iter' = [iter EXCEPT !.last = usize_sub(iter.last, 1)]
                      /\ yielded' = Append(yielded, Yield("next_back", iter.last))
                      /\ Observe("next_back", Some(index(queue, iter.last)),
                                 queue.array[index(queue, iter.last)] = Uninit)
                      /\ UNCHANGED panicked
  /\ UNCHANGED cloned

\* bookkeeping of the calls on the mutable iterator
ObserveMut(op, ret) ==
  /\ call' = [NoCall EXCEPT !.op = op, !.ret = ret,
                            !.uninit = ret.tag = "Some" /\ Deref(queue, ret) = Uninit]
  /\ pre' = queue
  /\ prevCall' = Brief(NoCall)
  /\ cloned' = NoClone
  /\ UNCHANGED <<queue, alive, overflow_checks, panicked, iter, abs, net, vec, vcall>>

IntoIterMut ==
  /\ CanMutate
  /\ iter_mut' = into_iter_mut(queue)
  /\ yielded' = << >>
  /\ ObserveMut("into_iter_mut", Ok)

MutNext ==
  /\ iter_mut.active /\ ~panicked
  /\ LET r == mut_next(queue, iter_mut)
     IN /\ iter_mut' = r.it
        /\ yielded' = IF r.ret = None THEN yielded
                      ELSE Append(yielded, [dir |-> "next_mut", pos |-> iter_mut.first,
                                            slot |-> r.ret.val])
        /\ ObserveMut("next_mut", r.ret)

MutIterEnd ==
  /\ iter_mut.active /\ ~panicked
  /\ iter_mut' = NoIterMut
  /\ yielded' = << >>
  /\ ObserveMut("iter_mut_end", Ok)

\* the iterator goes out of scope and the borrow ends
IterEnd ==
  /\ iter.active /\ ~panicked
  /\ iter' = NoIter
  /\ yielded' = << >>
  /\ Observe("iter_end", Ok, FALSE)
  /\ UNCHANGED <<panicked, cloned>>

Next ==
  \/ PushBack
  \/ PushFront
  \/ PopBack
  \/ PopFront
  \/ First
  \/ FirstMut
  \/ Last
  \/ LastMut
  \/ Clone
  \/ Drop
  \/ IntoIter
  \/ IterNext
  \/ IterNextBack
  \/ IterEnd
  \/ IntoIterMut
  \/ MutNext
  \/ MutIterEnd

Spec == Init /\ [][Next]_vars

\* ------------------------------------------- ArrayVec beside ArrayQueue
\* the same call on both containers: ArrayVec::push with push_back,
\* ArrayVec::pop_front with pop_front, and a forward iteration of each
VecPushOf(x) ==
  LET r == vec_push(vec, x)
  IN /\ vec' = r.v
     /\ vcall' = [op |-> "push", ret |-> r.ret]

VecPopFrontOf ==
  LET r == vec_pop_front(vec)
  IN /\ vec' = r.v
     /\ vcall' = [op |-> "pop_front", ret |-> r.ret]

PairPush ==
  /\ CanMutate
  /\ \E x \in Values : PushBackOf(x) /\ VecPushOf(x)

PairPopFront ==
  /\ CanMutate
  /\ \E g \in Garbage(queue, queue.start) : PopFrontOf(g)
  /\ VecPopFrontOf

PairIterate ==
  /\ CanMutate
  /\ LET r == iterate(queue, overflow_checks)
     IN /\ call' = [NoCall EXCEPT !.op = "iterate", !.ret = r]
        /\ panicked' = (r.tag = "Panic")
  /\ vcall' = [op |-> "iterate", ret |-> vec_iterate(vec)]
  /\ pre' = queue
  /\ prevCall' = Brief(NoCall)
  /\ cloned' = NoClone
  /\ UNCHANGED <<queue, alive, overflow_checks, iter, iter_mut, yielded, abs,
                 net, vec>>

NextPair ==
  \/ PairPush
  \/ PairPopFront
  \/ PairIterate

SpecPair == Init /\ [][NextPair]_vars

\* push_back / pop_front only: the queue used as a FIFO
NextFifo ==
  \/ PushBack
  \/ PopFront

SpecFifo == Init /\ [][NextFifo]_vars

\* ===================================================================== claims

\* C1: in every state reachable by pushes and pops, the slots holding a live
\* value are exactly the window { (start + i) mod N : 0 <= i < length }.
C1_LiveSlotsAreWindow ==
  alive => LiveSlots(queue) = Window(queue)

\* C2: pop_back on a non-empty queue returns the value at physical index
\* (start + length - 1) mod N, marks that slot uninitialized, decrements
\* length and leaves start and the other slots unchanged.
C2_PopBackTakesLast ==
  (call.op = "pop_back" /\ pre.length > 0) =>
    LET i == (pre.start + pre.length - 1) % N
    IN /\ call.slot = i
       /\ call.ret = Some(pre.array[i])
       /\ queue = [pre EXCEPT !.array[i] = Uninit, !.length = pre.length - 1]

\* C3: with push_back and pop_front only, every pop_front returns the oldest
\* value pushed and not yet popped (None when there is none), and len() is
\* the number of values pushed and not yet popped after every step.
C3_FifoOrder ==
  [][ /\ len(queue') = Len(abs')
      /\ call'.op = "pop_front" =>
           call'.ret = IF abs = << >> THEN None ELSE Some(Head(abs))
      /\ call'.op = "push_back" =>
           /\ call'.ret = IF Len(abs) = N THEN Err ELSE Ok
           /\ abs' = IF Len(abs) = N THEN abs ELSE Append(abs, call'.arg)
      /\ Logical(queue') = abs' ]_vars

\* C3 witness: a pop_front from a full queue whose window starts at the last
\* physical slot, so more than N pushes have happened and the window wraps.
C3_Witness ==
  /\ call.op = "pop_front"
  /\ pre.start = N - 1
  /\ pre.length = N
  /\ call.ret = Some(pre.array[N - 1])
  /\ abs = Logical(queue)
  /\ Len(abs) = N - 1

\* C4: push_back(x) immediately followed by pop_back() returns Some(x) and
\* restores the prior length, start and logical sequence.
C4_PushBackPopBack ==
  /\ (prevCall.op = "push_back" /\ prevCall.tag = "Ok" /\ call.op = "pop_back") =>
       /\ call.ret = Some(prevCall.arg)
       /\ queue.start = pre.start
       /\ queue.length = pre.length - 1
       /\ Logical(queue) = Front(Logical(pre))
  /\ (alive /\ ~is_full(queue)) =>
       \A x \in Values : \A g \in GarbageValues :
         LET e1 == push_back(queue, x)
             e2 == pop_back(e1.q, g)
         IN /\ e2.ret = Some(x)
            /\ e2.q.start = queue.start
            /\ e2.q.length = queue.length
            /\ Logical(e2.q) = Logical(queue)

\* C5: push_front(x) immediately followed by pop_front() returns Some(x) and
\* restores the prior start, length and logical sequence, from every
\* reachable non-full state.
C5_PushFrontPopFront ==
  /\ (prevCall.op = "push_front" /\ prevCall.tag = "Ok" /\ call.op = "pop_front") =>
       /\ call.ret = Some(prevCall.arg)
       /\ ~call.uninit
       /\ queue.length = pre.length - 1
       /\ Logical(queue) = Tail(Logical(pre))
  /\ (alive /\ ~is_full(queue)) =>
       \A x \in Values : \A g \in GarbageValues :
         LET e1 == push_front(queue, x)
             e2 == pop_front(e1.q, g)
         IN /\ e1.ret = Ok
            /\ e2.ret = Some(x)
            /\ e2.q.start = queue.start
            /\ e2.q.length = queue.length
            /\ Logical(e2.q) = Logical(queue)

\* C5 witness: push_front on a non-empty queue with start = 0 stored the
\* value in the last physical slot and the following pop_front returned it.
C5_Witness ==
  /\ prevCall.op = "push_front"
  /\ prevCall.tag = "Ok"
  /\ call.op = "pop_front"
  /\ call.ret = Some(prevCall.arg)
  /\ call.slot = N - 1
  /\ queue.start = 0
  /\ queue.length > 0

\* C6: push_back or push_front on a full queue returns Err(CapacityError)
\* and changes neither start, nor length, nor any slot.
C6_RejectedPushChangesNothing ==
  (call.op \in {"push_back", "push_front"} /\ pre.length = N) =>
    /\ call.ret = Err
    /\ queue = pre

\* C6 witness: a push_front rejected by a full queue whose window wraps.
C6_Witness ==
  /\ call.op = "push_front"
  /\ call.ret = Err
  /\ pre.length = N
  /\ pre.start # 0
  /\ queue = pre

\* C7: every value stored by a push is destroyed exactly once: no pop or drop
\* moves out of an uninitialized slot, no push overwrites a live value, and
\* after Drop no live value remains.
C7_ExactlyOnceDestruction ==
  /\ call.op \in (Mutators \cup {"drop"}) => (~call.uninit /\ ~call.overwrote)
  /\ ~alive => LiveSlots(queue) = {}

\* positions yielded by calls in direction dir, in order of the calls
Positions(dir) ==
  LET RECURSIVE Pick(_)
      Pick(k) == IF k = 0 THEN << >>
                 ELSE IF yielded[k].dir = dir
                        THEN Append(Pick(k - 1), yielded[k].pos)
                        ELSE Pick(k - 1)
  IN Pick(Len(yielded))

IterCalls == {"into_iter", "next", "next_back"}

\* C8: for a queue of length L and any interleaving of next() and
\* next_back(), exactly L calls return Some, forward calls yield positions
\* 0,1,2,..., backward calls yield L-1,L-2,..., no position is yielded twice
\* and every later call returns None.
C8_DoubleEndedStopsAtLength ==
  LET L == queue.length
      F == Positions("next")
      B == Positions("next_back")
  IN /\ call.op \in IterCalls => call.ret # Panic
     /\ iter.active =>
          /\ Len(yielded) <= L
          /\ \A k \in 1 .. Len(F) : F[k] = k - 1
          /\ \A k \in 1 .. Len(B) : B[k] = L - k
          /\ \A j, k \in 1 .. Len(yielded) :
               j # k => yielded[j].pos # yielded[k].pos
          /\ (call.op \in {"next", "next_back"} /\ call.ret = None) =>
               Len(yielded) = L

\* C9: iterating with next() alone yields exactly length references, the
\* i-th to physical slot (start + i) mod N, then None, for every length from
\* 0 to N, and leaves the queue unchanged.
C9_ForwardIterationInOrder ==
  LET L == queue.length
  IN /\ call.op \in {"into_iter", "next"} => call.ret # Panic
     /\ (iter.active /\ Positions("next_back") = << >>) =>
          /\ Len(yielded) <= L
          /\ \A k \in 1 .. Len(yielded) :
               /\ yielded[k].slot = (queue.start + k - 1) % N
               /\ queue.array[yielded[k].slot] # Uninit
          /\ (call.op = "next" /\ call.ret = None) => Len(yielded) = L
          /\ queue = pre

\* C10: clone() completes in every reachable state and produces a queue
\* with start 0, the same length and the same front-to-back sequence, built
\* from live elements only; the source is unchanged.
C10_ClonePreservesSequence ==
  call.op = "clone" =>
    /\ call.ret = Ok
    /\ ~panicked
    /\ cloned.made
    /\ cloned.q.start = 0
    /\ cloned.q.length = queue.length
    /\ Logical(cloned.q) = Logical(queue)
    /\ ~call.uninit
    /\ queue = pre

\* C11: push_front on a non-full queue stores the value in physical slot
\* (start - 1) mod N, sets start to that slot and increments length; then
\* first() is the pushed value, the elements held before follow it in their
\* previous order, and last() is unchanged when the queue was non-empty.
C11_PushFrontEffect ==
  (call.op = "push_front" /\ pre.length < N) =>
    LET s == (pre.start + N - 1) % N
    IN /\ call.ret = Ok
       /\ call.slot = s
       /\ queue = [pre EXCEPT !.array[s] = call.arg, !.start = s,
                              !.length = pre.length + 1]
       /\ first(queue) = Some(s)
       /\ Deref(queue, first(queue)) = call.arg
       /\ Logical(queue) = <<call.arg>> \o Logical(pre)
       /\ pre.length > 0 => last(queue) = last(pre)

\* C11 witness: push_front on a non-empty queue with start = 0 wrapped to
\* the last physical slot.
C11_Witness ==
  /\ call.op = "push_front"
  /\ call.ret = Ok
  /\ pre.start = 0
  /\ pre.length > 0
  /\ queue.start = N - 1
  /\ Deref(queue, first(queue)) = call.arg
  /\ last(queue) = last(pre)

\* C12: pop_front on a non-empty queue returns the value at physical slot
\* start, marks that slot uninitialized, sets start to (start + 1) mod N and
\* decrements length; the remaining elements keep their order, so first()
\* is then the former second element.
C12_PopFrontEffect ==
  (call.op = "pop_front" /\ pre.length > 0) =>
    LET s == pre.start
    IN /\ call.slot = s
       /\ call.ret = Some(pre.array[s])
       /\ ~call.uninit
       /\ queue = [pre EXCEPT !.array[s] = Uninit, !.start = (s + 1) % N,
                              !.length = pre.length - 1]
       /\ Logical(queue) = Tail(Logical(pre))
       /\ pre.length > 1 => Deref(queue, first(queue)) = Logical(pre)[2]

\* C13: push_back on a non-full queue stores the value in physical slot
\* (start + length) mod N and increments length, leaving start and every
\* previously live slot unchanged; then last() is the pushed value and
\* first() is unchanged when the queue was non-empty.
C13_PushBackEffect ==
  (call.op = "push_back" /\ pre.length < N) =>
    LET i == (pre.start + pre.length) % N
    IN /\ call.ret = Ok
       /\ call.slot = i
       /\ queue = [pre EXCEPT !.array[i] = call.arg, !.length = pre.length + 1]
       /\ \A j \in LiveSlots(pre) : queue.array[j] = pre.array[j]
       /\ ~call.overwrote
       /\ Deref(queue, last(queue)) = call.arg
       /\ pre.length > 0 => first(queue) = first(pre)

\* C14: after any sequence of push_back, push_front, pop_back and pop_front
\* calls, len() equals the number of pushes that returned Ok minus the
\* number of pops that returned Some.
C14_LengthAccounting ==
  len(queue) = net

\* C14 witness: a pop has returned Some after pushes at both ends, some of
\* them rejected by a full queue, and one value is still held.
C14_Witness ==
  /\ call.op = "pop_back"
  /\ call.ret.tag = "Some"
  /\ prevCall.op = "push_front"
  /\ prevCall.tag = "Err"
  /\ net = N - 1
  /\ len(queue) = N - 1

\* the slot a push on q indexes: index(length) or index(capacity - 1)
PushIndexArg(q, op) == IF op = "push_back" THEN q.length ELSE capacity - 1

\* C15: push_back and push_front return Err(CapacityError) exactly when
\* length = N (is_full() is true) and Ok(()) otherwise, and no push panics:
\* its index computation does not overflow and the slot indexed exists.
C15_ErrIffFull ==
  call.op \in {"push_back", "push_front"} =>
    /\ call.ret = Err <=> pre.length = N
    /\ call.ret = Err <=> is_full(pre)
    /\ call.ret = Ok <=> pre.length < N
    /\ ~panicked
    /\ ~is_full(pre) =>
         /\ ~index_panics(pre, PushIndexArg(pre, call.op))
         /\ ~add_overflows(pre.length, 1)
         /\ call.slot \in Slots

\* C15 witness: a push accepted by a queue with one free slot, then a push
\* at the other end rejected by the now full queue.
C15_Witness ==
  /\ prevCall.op = "push_front"
  /\ prevCall.tag = "Ok"
  /\ call.op = "push_back"
  /\ call.ret = Err
  /\ is_full(queue)
  /\ ~panicked

Peeks == {"first", "first_mut", "last", "last_mut"}

\* C16: with length = 0, whatever start is, pop_back and pop_front return
\* None and change nothing, and first(), first_mut(), last() and last_mut()
\* return None; with length > 0 each of the six returns Some.
C16_AbsenceOnEmpty ==
  /\ call.op \in {"pop_back", "pop_front"} =>
       /\ pre.length = 0 => (call.ret = None /\ queue = pre)
       /\ pre.length > 0 => call.ret.tag = "Some"
  /\ call.op \in Peeks =>
       /\ pre.length = 0 => (call.ret = None /\ queue = pre)
       /\ pre.length > 0 => call.ret.tag = "Some"
  /\ alive =>
       \A r \in {first(queue), first_mut(queue), last(queue), last_mut(queue)} :
         IF queue.length = 0 THEN r = None ELSE r.tag = "Some"
  /\ (alive /\ queue.length = 0) =>
       \A g \in GarbageValues :
         /\ pop_back(queue, g) = Effect(queue, None, NoSlot, FALSE, FALSE)
         /\ pop_front(queue, g) = Effect(queue, None, NoSlot, FALSE, FALSE)

\* C16 witness: last_mut() returned None on a queue emptied with start # 0.
C16_Witness ==
  /\ call.op = "last_mut"
  /\ call.ret = None
  /\ queue.length = 0
  /\ queue.start # 0
  /\ net = 0

\* C17: on a non-empty queue first() and first_mut() refer to physical slot
\* start, last() and last_mut() to physical slot (start + length - 1) mod N,
\* and the call leaves start, length and every slot unchanged.
C17_PeekExact ==
  /\ (alive /\ queue.length > 0) =>
       /\ first(queue) = Some(queue.start)
       /\ first_mut(queue) = Some(queue.start)
       /\ last(queue) = Some((queue.start + queue.length - 1) % N)
       /\ last_mut(queue) = Some((queue.start + queue.length - 1) % N)
  /\ (call.op \in Peeks /\ pre.length > 0) =>
       /\ queue = pre
       /\ call.op \in {"first", "first_mut"} => call.ret = Some(pre.start)
       /\ call.op \in {"last", "last_mut"} =>
            call.ret = Some((pre.start + pre.length - 1) % N)

\* C17 witness: last() on a full queue whose window starts at the last
\* physical slot referred to the slot before it.
C17_Witness ==
  /\ call.op = "last"
  /\ queue.start = N - 1
  /\ queue.length = N
  /\ call.ret = Some((N - 1 + N - 1) % N)
  /\ queue = pre

\* C18: iterating &mut queue of length L yields exactly L mutable
\* references, the i-th to physical slot (start + i) mod N, to pairwise
\* distinct slots inside the live window, and then None on every further
\* call.
C18_MutIterationOncePerSlot ==
  iter_mut.active =>
    LET L == queue.length
    IN /\ Len(yielded) <= L
       /\ iter_mut.first = Len(yielded)
       /\ \A k \in 1 .. Len(yielded) :
            /\ yielded[k].pos = k - 1
            /\ yielded[k].slot = (queue.start + k - 1) % N
            /\ yielded[k].slot \in Window(queue)
       /\ \A j, k \in 1 .. Len(yielded) :
            j # k => yielded[j].slot # yielded[k].slot
       /\ (call.op = "next_mut" /\ call.ret = None) => Len(yielded) = L
       /\ Len(yielded) = L =>
            mut_next(queue, iter_mut) = [it |-> iter_mut, ret |-> None]
       /\ Len(yielded) < L => mut_next(queue, iter_mut).ret.tag = "Some"

\* C18 witness: the mutable iterator has run over a full queue whose window
\* starts at the last physical slot and has returned None.
C18_Witness ==
  /\ iter_mut.active
  /\ call.op = "next_mut"
  /\ call.ret = None
  /\ Len(yielded) = N
  /\ queue.start = N - 1
  /\ yielded[1].slot = N - 1
  /\ yielded[N].slot = (N - 1 + N - 1) % N

\* C19: in every state reachable by pushes and pops, 0 <= length <= N and
\* 0 <= start < N, and every physical index an operation reads or writes is
\* in 0 .. N - 1.
C19_IndexBounds ==
  /\ queue.length \in 0 .. N
  /\ queue.start \in 0 .. (N - 1)
  /\ (call.op \in Mutators /\ call.ret.tag \in {"Ok", "Some"}) =>
       call.slot \in Slots
  /\ (call.op \in Peeks /\ call.ret.tag = "Some") => call.ret.val \in Slots
  /\ \A k \in 1 .. Len(yielded) : yielded[k].slot \in Slots
  /\ (alive /\ ~is_full(queue)) =>
       /\ index(queue, queue.length) \in Slots
       /\ index(queue, capacity - 1) \in Slots
  /\ (alive /\ ~is_empty(queue)) =>
       /\ queue.length - 1 \in Slots
       /\ index(queue, 1) \in Slots

\* C19 witness: push_front from start = 0 filled the queue through the last
\* physical slot.
C19_Witness ==
  /\ call.op = "push_front"
  /\ call.ret = Ok
  /\ pre.start = 0
  /\ call.slot = N - 1
  /\ queue.start = N - 1
  /\ queue.length = N

\* C20: running ArrayVec::push / pop_front beside ArrayQueue::push_back /
\* pop_front on the same arguments gives at every step the same return
\* value, the same start and length, the same len(), is_empty() and
\* is_full(), and the same forward iteration sequence.
C20_VecMatchesQueue ==
  /\ vcall.ret = call.ret
  /\ ~panicked
  /\ vec.start = queue.start
  /\ vec.length = queue.length
  /\ vec_len(vec) = len(queue)
  /\ vec_is_empty(vec) = is_empty(queue)
  /\ vec_is_full(vec) = is_full(queue)
  /\ vec_iterate(vec) = iterate(queue, overflow_checks)

\* C21: iterator cursor arithmetic never underflows: into_iter (len() - 1)
\* and next_back (last -= 1) never subtract 1 from a cursor that is 0, under
\* overflow checks (a panic) or without them (a wrapped cursor), and the
\* cursors of an iterator always satisfy first <= last + 1 <= length.
C21_CursorsNeverUnderflow ==
  /\ call.op \in {"into_iter", "next_back"} => call.ret # Panic
  /\ iter.active =>
       /\ iter.first <= iter.last + 1
       /\ iter.last + 1 <= queue.length

\* C22: in every ArrayVec state reached from new() by push and pop_front,
\* 0 <= length <= N, 0 <= start < N, and every physical slot outside the
\* live window holds the default value.
C22_VacatedSlotsDefault ==
  /\ vec.length \in 0 .. N
  /\ vec.start \in 0 .. (N - 1)
  /\ \A s \in Slots \ VecWindow(vec) : vec.array[s] = DefaultValue

\* C22 witness: pop_front vacated the last physical slot and start wrapped
\* to 0; the vacated slot holds the default, the live slots hold values.
C22_Witness ==
  /\ vcall.op = "pop_front"
  /\ vcall.ret.tag = "Some"
  /\ vec.start = 0
  /\ vec.length = N - 1
  /\ vec.array[N - 1] = DefaultValue
  /\ \A s \in VecWindow(vec) : vec.array[s] \in Values

====
